---- MODULE Spec2Model ----
(***************************************************************************)
(* Model of the webhook server of "Rust Version/src/main.rs":             *)
(* handle_webhook (authentication, path validation, directory check,      *)
(* update_git_repository, arming of should_restart) running on several    *)
(* worker tasks, and monitor_restart draining the latch into the trigger  *)
(* file.  Strings are sequences of one-character strings; Option<T> is a  *)
(* set with at most one element ({} is None, {v} is Some(v)).             *)
(***************************************************************************)
EXTENDS Integers, Sequences, FiniteSets, TLC

\* ------------------------------------------------------------------ bounds
\* Number of request-handling tasks that may run handle_webhook at once.
NReq == 2
\* Length of the linear history of origin/master (commits 0..MaxCommit).
MaxCommit == 2
\* Longest path segment / token enumerated by the input specification.
MaxSegLen == 3
MaxTokLen == 2
\* Saturation of the history counter of arms between two drains.
MaxArms == 3

Reqs == 1..NReq

\* ------------------------------------------------------------ the filesystem
\* --git-repo-dir: "/r".  Directories that exist, as resolved component lists.
Root == <<"/", "r">>
RootDir == <<"r">>
\* The one directory that holds a git working copy: "/r/a".
GitDir == <<"r", "a">>
Dirs == {<< >>, RootDir, GitDir}

\* ------------------------------------------------------------ validate_path
\* \w of the regex crate: letters, digits and the underscore.
WordChars == {"a", "7", "_"}
\* The character class [\w\-_/\\\.] of the pattern.
AllowedChars == WordChars \cup {"-", "_", "/", "\\", "."}
\* Characters requests are built from (allowed ones and others).
Chars == {"a", ".", "/", "\\", "-", " ", ";"}

\* The position after the longest run of characters of the class that
\* starts at position i: the greedy `+` of the pattern.
RECURSIVE ClassRun(_, _)
ClassRun(path, i) ==
    IF i <= Len(path) /\ path[i] \in AllowedChars THEN ClassRun(path, i + 1) ELSE i

\* C14 (mutant): the pattern without its anchors, [\w\-_/\\\.]+ : is_match
\* finds a run anywhere in the text.
is_match_Unanchored(path) ==
    \E i \in 1..Len(path) : ClassRun(path, i) > i

\* Regex::is_match for ^[\w\-_/\\\.]+$ : `^` lets a match start only at the
\* first position, the run takes at least one character, and `$` (no
\* multi-line flag) holds only at the end of the text.
is_match(path) ==
    LET j == ClassRun(path, 1)
    IN  j > 1 /\ j = Len(path) + 1

validate_path(path) == is_match(path)

\* PathBuf::join: an absolute argument replaces the base, otherwise the
\* argument is appended after a separator.
Join(base, sub) ==
    IF Len(sub) >= 1 /\ sub[1] = "/" THEN sub
    ELSE base \o <<"/">> \o sub

\* Components of a path, "/" being the only separator: the list of maximal
\* runs of other characters, each a sequence of characters.
RECURSIVE SplitFrom(_, _, _, _)
SplitFrom(p, i, cur, acc) ==
    IF i > Len(p) THEN (IF cur = << >> THEN acc ELSE Append(acc, cur))
    ELSE IF p[i] = "/"
         THEN SplitFrom(p, i + 1, << >>, IF cur = << >> THEN acc ELSE Append(acc, cur))
         ELSE SplitFrom(p, i + 1, Append(cur, p[i]), acc)

Components(p) == SplitFrom(p, 1, << >>, << >>)

\* A directory name of the model is one character; longer names do not exist.
DirName(comp) == IF Len(comp) = 1 THEN comp[1] ELSE "?"

\* Path resolution as stat(2) does it for an absolute path: walk the
\* components from "/"; "." stays, ".." goes to the parent ("/" is its own
\* parent), a name enters that directory, which must exist.  The result is
\* {} when a component is missing and {dir} otherwise.
RECURSIVE Walk(_, _, _)
Walk(comps, i, at) ==
    IF i > Len(comps) THEN {at}
    ELSE IF comps[i] = <<".">> THEN Walk(comps, i + 1, at)
    ELSE IF comps[i] = <<".", ".">>
         THEN Walk(comps, i + 1, IF at = << >> THEN at ELSE SubSeq(at, 1, Len(at) - 1))
    ELSE IF Append(at, DirName(comps[i])) \in Dirs
         THEN Walk(comps, i + 1, Append(at, DirName(comps[i])))
         ELSE {}

Resolve(p) == Walk(Components(p), 1, << >>)

\* Path::is_dir
is_dir(p) == Resolve(p) # {}

\* d is a proper descendant of the repository root.
StrictlyInside(d) ==
    /\ Len(d) > Len(RootDir)
    /\ SubSeq(d, 1, Len(RootDir)) = RootDir


\* ------------------------------------------------------------- the requests
\* config.security_token when --security-token is given.
Secret == <<"s", "k">>
\* A token differing from the secret in one character.
NearMiss == <<"s", "s">>
\* X-Security-Token values and path segments the worker tasks receive.
ReqTokens == {{Secret}, {NearMiss}}
ReqSegs == {<<"a">>, <<"-">>, <<"a", " ">>}

\* Every X-Security-Token (absent, or a string over TokChars) and every path
\* segment up to the length bounds.
TokChars == {"s", "k"}
Strings(alphabet, n) == UNION {[1..k -> alphabet] : k \in 0..n}
AllTokens == {{}} \cup {{t} : t \in Strings(TokChars, MaxTokLen)}
AllSegs == Strings(Chars, MaxSegLen)

\* C3 (mutant): a request without the header is let through.
Authenticate_MissingOk(sec, tok) ==
    IF sec # {} /\ tok # {} THEN tok = sec ELSE TRUE

\* token != Some(expected_token) is the rejection; no check without a secret.
Authenticate(sec, tok) ==
    IF sec # {} THEN tok = sec ELSE TRUE

\* ServerError and its Display (thiserror): a fixed text and an argument.
Unauthorized == [kind |-> "Unauthorized", arg |-> << >>]
InvalidPath(subpath) == [kind |-> "InvalidPath", arg |-> subpath]
RepoNotFound(p) == [kind |-> "RepoNotFound", arg |-> p]
\* The argument of GitError is the message of the git2::Error.
GitError == [kind |-> "GitError", arg |-> <<"git2">>]

to_string(err) ==
    CASE err.kind = "GitError" -> [text |-> "Git operation failed: ", arg |-> err.arg]
      [] err.kind = "InvalidPath" -> [text |-> "Invalid path: ", arg |-> err.arg]
      [] err.kind = "RepoNotFound" -> [text |-> "Repository not found: ", arg |-> err.arg]
      [] err.kind = "Unauthorized" -> [text |-> "Unauthorized", arg |-> << >>]

\* C9 (mutant): the RepoNotFound arm is missing and falls to the default.
error_response_NoNotFound(err) ==
    [code |-> CASE err.kind = "Unauthorized" -> 401
                [] err.kind = "InvalidPath" -> 400
                [] OTHER -> 500,
     status |-> "error",
     message |-> to_string(err)]

\* ResponseError::error_response: the status code chosen by the variant.
error_response(err) ==
    [code |-> CASE err.kind = "Unauthorized" -> 401
                [] err.kind = "RepoNotFound" -> 404
                [] err.kind = "InvalidPath" -> 400
                [] OTHER -> 500,
     status |-> "error",
     message |-> to_string(err)]

\* The Ok value of handle_webhook.
OkResponse ==
    [code |-> 200, status |-> "success",
     message |-> [text |-> "Repository updated", arg |-> << >>]]

NoResponse == [code |-> 0, status |-> "none", message |-> [text |-> "", arg |-> << >>]]

\* C2 (mutant): the path is validated before the token is compared.
HandleChecks_PathFirst(sec, tok, subpath) ==
    IF ~validate_path(subpath)
    THEN [err |-> {InvalidPath(subpath)}, ran |-> <<"path">>, repo_path |-> << >>]
    ELSE IF ~Authenticate(sec, tok)
    THEN [err |-> {Unauthorized}, ran |-> <<"path", "auth">>, repo_path |-> << >>]
    ELSE IF ~is_dir(Join(Root, subpath))
    THEN [err |-> {RepoNotFound(Join(Root, subpath))}, ran |-> <<"path", "auth", "dir">>,
          repo_path |-> Join(Root, subpath)]
    ELSE [err |-> {}, ran |-> <<"path", "auth", "dir", "sync">>,
          repo_path |-> Join(Root, subpath)]

\* handle_webhook up to the call of update_git_repository: the checks in
\* the order of the code, each returning early.  err is {} when all pass;
\* ran lists the checks that were evaluated, and "sync" when the handler
\* goes on to call update_git_repository.
HandleChecks(sec, tok, subpath) ==
    IF ~Authenticate(sec, tok)
    THEN [err |-> {Unauthorized}, ran |-> <<"auth">>, repo_path |-> << >>]
    ELSE IF ~validate_path(subpath)
    THEN [err |-> {InvalidPath(subpath)}, ran |-> <<"auth", "path">>, repo_path |-> << >>]
    ELSE IF ~is_dir(Join(Root, subpath))
    THEN [err |-> {RepoNotFound(Join(Root, subpath))}, ran |-> <<"auth", "path", "dir">>,
          repo_path |-> Join(Root, subpath)]
    ELSE [err |-> {}, ran |-> <<"auth", "path", "dir", "sync">>,
          repo_path |-> Join(Root, subpath)]

\* ------------------------------------------------------------ the repository
\* Commits 0..MaxCommit are the history of origin/master; Diverged is a
\* local commit on top of commit 0 that origin does not have.
Diverged == 0 - 1
Commits == (0..MaxCommit) \cup {Diverged}

IsAncestor(a, b) ==
    IF b = Diverged THEN a \in {0, Diverged}
    ELSE a # Diverged /\ a <= b

\* C11 (mutant): every fetched commit other than HEAD counts as a fast-forward.
is_fast_forward_AnyChange(headc, fetched) == fetched # headc

\* git_merge_analysis of HEAD against the fetched commit, reduced to
\* is_fast_forward(): up to date when the fetched commit is reachable from
\* HEAD, fast-forward when HEAD is reachable from it, a true merge otherwise.
is_fast_forward(headc, fetched) ==
    /\ ~IsAncestor(fetched, headc)
    /\ IsAncestor(headc, fetched)

\* The libgit2 calls of update_git_repository as functions of the working
\* copy rp = [master, fetch_head, tree, dirty, untracked].

\* C19 (mutant): ResetType::Soft, which moves nothing of the working tree.
reset_hard_Soft(rp) == rp

\* repo.head()?.peel_to_commit()?; repo.reset(head, Hard): index and working
\* tree become the tree of the HEAD commit; untracked files stay.
reset_hard(rp) == [rp EXCEPT !.tree = rp.master, !.dirty = FALSE]

\* repo.cleanup_state(): removes the files of a merge, revert or cherry-pick
\* in progress; the working tree, untracked files included, is not touched.
cleanup_state(rp) == rp

\* find_remote("origin") and fetch(&["master"]): FETCH_HEAD becomes the tip
\* of origin's master at this moment.
fetch(rp, tip) == [rp EXCEPT !.fetch_head = tip]

\* find_reference("refs/heads/master") and set_target(fetch_commit.id()).
set_target(rp, fetched) == [rp EXCEPT !.master = fetched]

\* set_head("refs/heads/master"): HEAD already names that branch.
set_head(rp) == rp

\* C12 (mutant): a checkout without force() keeps the files that differ from
\* the new HEAD, which then show as local modifications.
checkout_head_NotForced(rp) == [rp EXCEPT !.dirty = (rp.tree # rp.master)]

\* C10 (mutant): the checkout leaves the working tree as it was.
checkout_head_Skipped(rp) == rp

\* checkout_head(force): index and working tree become the tree of HEAD.
checkout_head(rp) == [rp EXCEPT !.tree = rp.master, !.dirty = FALSE]

\* The fallible calls of update_git_repository, in program order.
SyncSteps == <<"open", "reset", "cleanup", "fetch", "fetch_head", "analysis",
               "set_target", "set_head", "checkout">>
StepNames == {SyncSteps[i] : i \in 1..Len(SyncSteps)}

\* update_git_repository run without interruption on working copy rp, the
\* origin tip being `tip`; `opens` says whether repo_path is a git working
\* copy, and failAt names the call that returns Err ("" for none).  The
\* result is the working copy left behind and err: {} for Ok(()), {step}
\* for the Err of that step.
update_git_repository(rp, tip, opens, failAt) ==
    LET r1 == reset_hard(rp)
        r2 == fetch(cleanup_state(r1), tip)
        fetch_commit == r2.fetch_head
        r3 == set_target(r2, fetch_commit)
        r4 == checkout_head(set_head(r3))
    IN  IF ~opens \/ failAt = "open" THEN [repo |-> rp, err |-> {"open"}]
        ELSE IF failAt = "reset" THEN [repo |-> rp, err |-> {failAt}]
        ELSE IF failAt \in {"cleanup", "fetch"} THEN [repo |-> r1, err |-> {failAt}]
        ELSE IF failAt \in {"fetch_head", "analysis"} THEN [repo |-> r2, err |-> {failAt}]
        ELSE IF ~is_fast_forward(r2.master, fetch_commit) THEN [repo |-> r2, err |-> {}]
        ELSE IF failAt = "set_target" THEN [repo |-> r2, err |-> {failAt}]
        ELSE IF failAt \in {"set_head", "checkout"} THEN [repo |-> r3, err |-> {failAt}]
        ELSE [repo |-> r4, err |-> {}]

VARIABLES
    secret,      \* config.security_token
    h,           \* per worker task: the frame of handle_webhook
    latch,       \* *should_restart
    holder,      \* owner of the tokio Mutex around should_restart: 0 when free
    repo,        \* the working copy: master, FETCH_HEAD, tree, dirty, untracked
    remote,      \* tip of master at origin
    mpc,         \* position of monitor_restart
    restart,     \* its local `restart`
    marker,      \* /tmp/webhook_restart_trigger exists
    hist,        \* history: arms since the last drain (arms), arms the current
                 \* cycle's drain consumed (batch), its File::create (created)
    probe        \* the request delivered in the specification of the inputs

vars == <<secret, h, latch, holder, repo, remote, mpc, restart, marker, hist, probe>>

\* A clean working copy of commit 0.
CleanRepo == [master |-> 0, fetch_head |-> 0, tree |-> 0, dirty |-> FALSE, untracked |-> FALSE]

\* was, drift: master, and whether tracked files had uncommitted
\* modifications, when update_git_repository was entered (history).
\* fetch_commit and reference are the locals of update_git_repository: the
\* commit read from FETCH_HEAD, and the target refs/heads/master had when
\* find_reference loaded it.
IdleFrame ==
    [pc |-> "idle", ran |-> << >>, repo_path |-> << >>, fetch_commit |-> 0, reference |-> 0,
     sync |-> "none", was |-> 0, drift |-> FALSE, resp |-> NoResponse]

NoProbe == [token |-> {}, subpath |-> << >>]

Init ==
    /\ secret = {Secret}
    /\ h = [r \in Reqs |-> IdleFrame]
    /\ latch = FALSE
    /\ holder = 0
    /\ repo = CleanRepo
    /\ remote = 1
    /\ mpc = "lock"
    /\ restart = FALSE
    /\ marker = FALSE
    /\ hist = [arms |-> 0, batch |-> 0, created |-> "none"]
    /\ probe = NoProbe


\* ------------------------------------------------------------ handle_webhook
Frame(r, f) == [h EXCEPT ![r] = f]

\* A request arrives at worker r and runs lines 118-147: it is answered with
\* the error of the first failing check, or goes on to update_git_repository.
Receive(r, tok, subpath) ==
    /\ h[r].pc \in {"idle", "done"}
    /\ LET c == HandleChecks(secret, tok, subpath)
       IN  h' = Frame(r, IF c.err # {}
                         THEN [IdleFrame EXCEPT !.pc = "done", !.ran = c.ran,
                                   !.resp = error_response(CHOOSE e \in c.err : TRUE)]
                         ELSE [IdleFrame EXCEPT !.pc = "open", !.ran = c.ran,
                                   !.repo_path = c.repo_path])
    /\ UNCHANGED <<secret, latch, holder, repo, remote, mpc, restart, marker, hist, probe>>

\* The `?` of update_git_repository(..).await?: the git2::Error becomes
\* ServerError::GitError and the handler returns it.
SyncErr(r) ==
    h' = Frame(r, [IdleFrame EXCEPT !.pc = "done", !.ran = h[r].ran, !.sync = "Err",
                                    !.drift = IF h[r].pc = "open" THEN repo.dirty ELSE h[r].drift,
                                    !.resp = error_response(GitError)])

\* C20 (mutant): the handler signals a restart only when the sync has moved
\* master, and answers 200 without arming the latch otherwise.
SyncOk_OnlyIfChanged(r) ==
    h' = Frame(r, IF repo'.master # repo.master
                  THEN [h[r] EXCEPT !.pc = "arm", !.sync = "Ok", !.was = repo.master,
                                    !.drift = repo.dirty]
                  ELSE [IdleFrame EXCEPT !.pc = "done", !.ran = h[r].ran, !.sync = "Ok",
                                         !.was = repo.master, !.resp = OkResponse])

\* Ok(()) of update_git_repository: the handler goes on to the latch.
SyncOk(r) ==
    h' = Frame(r, [h[r] EXCEPT !.pc = "arm", !.sync = "Ok", !.was = repo.master,
                               !.drift = repo.dirty])

Rest == <<secret, latch, holder, remote, mpc, restart, marker, hist, probe>>

\* C1 (mutant): the latch is set before the result of the sync is looked at.
Update_ArmsEarly(r, failAt) ==
    /\ h[r].pc = "open"
    /\ LET u == update_git_repository(repo, remote, Resolve(h[r].repo_path) = {GitDir}, failAt)
       IN  /\ repo' = u.repo
           /\ IF u.err = {} THEN SyncOk(r) ELSE SyncErr(r)
    /\ latch' = TRUE
    /\ UNCHANGED <<secret, holder, remote, mpc, restart, marker, hist, probe>>

\* update_git_repository(&repo_path).await, which has no suspension point
\* inside, taken in one step; any of its calls may fail.
Update(r, failAt) ==
    /\ h[r].pc = "open"
    /\ LET u == update_git_repository(repo, remote, Resolve(h[r].repo_path) = {GitDir}, failAt)
       IN  /\ repo' = u.repo
           /\ IF u.err = {} THEN SyncOk(r) ELSE SyncErr(r)
    /\ UNCHANGED Rest

Bump(n) == IF n < MaxArms THEN n + 1 ELSE n

\* Lines 152-158 with the wait for the mutex and the critical section taken
\* together: the guard is held over no suspension point.
Arm(r) ==
    /\ h[r].pc = "arm"
    /\ holder = 0
    /\ latch' = TRUE
    /\ h' = Frame(r, [IdleFrame EXCEPT !.pc = "done", !.ran = h[r].ran, !.sync = "Ok",
                                       !.was = h[r].was, !.resp = OkResponse])
    /\ hist' = [hist EXCEPT !.arms = Bump(hist.arms)]
    /\ UNCHANGED <<secret, holder, repo, remote, mpc, restart, marker, probe>>

\* ------------------------------------------------------------ monitor_restart
MonRest == <<secret, h, repo, remote, probe>>

\* C5 (mutant): the drain reads the latch and does not clear it.
MonitorReadClear_NoClear ==
    /\ mpc = "lock"
    /\ holder = 0
    /\ restart' = latch
    /\ mpc' = "trigger"
    /\ hist' = [hist EXCEPT !.arms = 0, !.batch = hist.arms]
    /\ UNCHANGED <<latch, holder, marker>>
    /\ UNCHANGED MonRest

\* Lines 165-170 taken together: lock, read, clear, unlock.
MonitorReadClear ==
    /\ mpc = "lock"
    /\ holder = 0
    /\ restart' = latch
    /\ latch' = FALSE
    /\ mpc' = "trigger"
    /\ hist' = [hist EXCEPT !.arms = 0, !.batch = hist.arms]
    /\ UNCHANGED <<holder, marker>>
    /\ UNCHANGED MonRest

\* C6 (mutant): the cycle reports the trigger and creates no file.
MonitorCreateOk_NoFile ==
    /\ mpc = "trigger"
    /\ restart
    /\ hist' = [hist EXCEPT !.created = "ok"]
    /\ mpc' = "sleep"
    /\ UNCHANGED <<latch, holder, restart, marker>>
    /\ UNCHANGED MonRest

\* if restart { File::create(&trigger_path) }: the file exists afterwards
\* when the call returns Ok.
MonitorCreateOk ==
    /\ mpc = "trigger"
    /\ restart
    /\ marker' = TRUE
    /\ hist' = [hist EXCEPT !.created = "ok"]
    /\ mpc' = "sleep"
    /\ UNCHANGED <<latch, holder, restart>>
    /\ UNCHANGED MonRest

\* C8 (mutant): the Err of File::create ends the task.
MonitorCreateErr_Stops ==
    /\ mpc = "trigger"
    /\ restart
    /\ hist' = [hist EXCEPT !.created = "failed"]
    /\ mpc' = "stopped"
    /\ UNCHANGED <<latch, holder, restart, marker>>
    /\ UNCHANGED MonRest

\* File::create returned Err: `if let Ok` does nothing.
MonitorCreateErr ==
    /\ mpc = "trigger"
    /\ restart
    /\ hist' = [hist EXCEPT !.created = "failed"]
    /\ mpc' = "sleep"
    /\ UNCHANGED <<latch, holder, restart, marker>>
    /\ UNCHANGED MonRest

\* restart is false: nothing to do in this cycle.
MonitorSkip ==
    /\ mpc = "trigger"
    /\ ~restart
    /\ hist' = [hist EXCEPT !.created = "none"]
    /\ mpc' = "sleep"
    /\ UNCHANGED <<latch, holder, restart, marker>>
    /\ UNCHANGED MonRest

\* sleep(Duration::from_secs(1)).await, then the next iteration of the loop:
\* the local `restart` of this iteration is gone.  Of the cycle's history
\* only a failed File::create is remembered.
MonitorSleep ==
    /\ mpc = "sleep"
    /\ mpc' = "lock"
    /\ restart' = FALSE
    /\ hist' = [hist EXCEPT !.batch = 0,
                            !.created = IF hist.created = "failed" THEN "failed" ELSE "none"]
    /\ UNCHANGED <<latch, holder, marker>>
    /\ UNCHANGED MonRest

\* ------------------------------------------------------------ the environment
\* A commit is pushed to master at origin.
RemoteAdvance ==
    /\ remote < MaxCommit
    /\ remote' = remote + 1
    /\ UNCHANGED <<secret, h, latch, holder, repo, mpc, restart, marker, hist, probe>>

Handler(r) ==
    \/ \E tok \in ReqTokens, subpath \in ReqSegs : Receive(r, tok, subpath)
    \/ \E failAt \in StepNames \cup {""} : Update(r, failAt)
    \/ Arm(r)

Monitor ==
    \/ MonitorReadClear
    \/ MonitorCreateOk
    \/ MonitorCreateErr
    \/ MonitorSkip
    \/ MonitorSleep

Next ==
    \/ \E r \in Reqs : Handler(r)
    \/ Monitor

Spec == Init /\ [][Next]_vars

\* ------------------------------------- requests for "a" and a fair monitor
\* The worker tasks receive requests for the working copy "a", with the
\* right token or a wrong one.
NextFair ==
    \/ \E r \in Reqs, tok \in ReqTokens : Receive(r, tok, <<"a">>)
    \/ \E r \in Reqs, failAt \in StepNames \cup {""} : Update(r, failAt)
    \/ \E r \in Reqs : Arm(r)
    \/ Monitor

\* The monitor task is spawned on the runtime, its sleep ends and the mutex
\* is held over no suspension point: its next step is always taken.
SpecFair == Init /\ [][NextFair]_vars /\ WF_vars(Monitor)

\* ------------------------------------------------- one request, every input
InitInputs ==
    /\ secret \in {{}, {Secret}}
    /\ probe \in [token : AllTokens, subpath : AllSegs]
    /\ h = [r \in Reqs |-> IdleFrame]
    /\ latch = FALSE
    /\ holder = 0
    /\ repo = CleanRepo
    /\ remote = 1
    /\ mpc = "lock"
    /\ restart = FALSE
    /\ marker = FALSE
    /\ hist = [arms |-> 0, batch |-> 0, created |-> "none"]

Deliver ==
    /\ h[1].pc = "idle"
    /\ Receive(1, probe.token, probe.subpath)

NextInputs ==
    \/ Deliver
    \/ \E failAt \in StepNames \cup {""} : Update(1, failAt)
    \/ Arm(1)

SpecInputs == InitInputs /\ [][NextInputs]_vars

\* ------------------------------------- requests for "a" on a changing origin
InitRepo ==
    /\ secret = {}
    /\ probe = NoProbe
    /\ h = [r \in Reqs |-> IdleFrame]
    /\ latch = FALSE
    /\ holder = 0
    /\ repo \in [master : {0, Diverged}, fetch_head : {0}, tree : {0, Diverged},
                 dirty : BOOLEAN, untracked : BOOLEAN]
    /\ repo.tree = repo.master
    /\ remote = 0
    /\ mpc = "lock"
    /\ restart = FALSE
    /\ marker = FALSE
    /\ hist = [arms |-> 0, batch |-> 0, created |-> "none"]

\* Somebody edits a tracked file of the working copy, or drops a new file.
Drift ==
    /\ \/ repo' = [repo EXCEPT !.dirty = TRUE]
       \/ repo' = [repo EXCEPT !.untracked = TRUE]
    /\ UNCHANGED <<secret, h, latch, holder, remote, mpc, restart, marker, hist, probe>>

NextRepo ==
    \/ Receive(1, {}, <<"a">>)
    \/ \E failAt \in StepNames \cup {""} : Update(1, failAt)
    \/ Arm(1)
    \/ RemoteAdvance
    \/ Drift

SpecRepo == InitRepo /\ [][NextRepo]_vars

\* ------------------------------------- the latch, one mutex operation a step
\* The monitor task as an owner of the mutex (the workers are 1..NReq).
MonitorTask == NReq + 1

\* C15 (mutant): the handler does not wait for the mutex.
ArmLock_NoWait(r) ==
    /\ h[r].pc = "arm"
    /\ holder' = r
    /\ h' = Frame(r, [h[r] EXCEPT !.pc = "set"])
    /\ UNCHANGED <<secret, latch, repo, remote, mpc, restart, marker, hist, probe>>

\* state.should_restart.lock().await: returns once the mutex is free.
ArmLock(r) ==
    /\ h[r].pc = "arm"
    /\ holder = 0
    /\ holder' = r
    /\ h' = Frame(r, [h[r] EXCEPT !.pc = "set"])
    /\ UNCHANGED <<secret, latch, repo, remote, mpc, restart, marker, hist, probe>>

\* *should_restart = true;
ArmSet(r) ==
    /\ h[r].pc = "set"
    /\ latch' = TRUE
    /\ hist' = [hist EXCEPT !.arms = Bump(hist.arms)]
    /\ h' = Frame(r, [h[r] EXCEPT !.pc = "unlock"])
    /\ UNCHANGED <<secret, holder, repo, remote, mpc, restart, marker, probe>>

\* The response is built and the guard is dropped at the return.
ArmUnlock(r) ==
    /\ h[r].pc = "unlock"
    /\ holder' = 0
    /\ h' = Frame(r, [IdleFrame EXCEPT !.pc = "done", !.ran = h[r].ran, !.sync = "Ok",
                                       !.resp = OkResponse])
    /\ UNCHANGED <<secret, latch, repo, remote, mpc, restart, marker, hist, probe>>

\* let mut flag = should_restart.lock().await;
MonitorLock ==
    /\ mpc = "lock"
    /\ holder = 0
    /\ holder' = MonitorTask
    /\ mpc' = "read"
    /\ UNCHANGED <<latch, restart, marker, hist>>
    /\ UNCHANGED MonRest

\* let should = *flag;  The history notes the arms this read has seen.
MonitorRead ==
    /\ mpc = "read"
    /\ restart' = latch
    /\ hist' = [hist EXCEPT !.batch = hist.arms]
    /\ mpc' = "clear"
    /\ UNCHANGED <<latch, holder, marker>>
    /\ UNCHANGED MonRest

\* *flag = false;  The arms the read has seen are consumed.
MonitorClear ==
    /\ mpc = "clear"
    /\ latch' = FALSE
    /\ hist' = [hist EXCEPT !.arms = hist.arms - hist.batch]
    /\ mpc' = "unlock"
    /\ UNCHANGED <<holder, restart, marker>>
    /\ UNCHANGED MonRest

\* The block ends: `should` becomes `restart` and the guard is dropped.
MonitorUnlock ==
    /\ mpc = "unlock"
    /\ holder' = 0
    /\ mpc' = "trigger"
    /\ UNCHANGED <<latch, restart, marker, hist>>
    /\ UNCHANGED MonRest

NextLatch ==
    \/ \E r \in Reqs : Receive(r, {Secret}, <<"a">>)
    \/ \E r \in Reqs, failAt \in StepNames \cup {""} : Update(r, failAt)
    \/ \E r \in Reqs : ArmLock(r) \/ ArmSet(r) \/ ArmUnlock(r)
    \/ MonitorLock \/ MonitorRead \/ MonitorClear \/ MonitorUnlock
    \/ MonitorCreateOk \/ MonitorCreateErr \/ MonitorSkip \/ MonitorSleep

SpecLatch == Init /\ [][NextLatch]_vars

\* ------------------------- update_git_repository, one libgit2 call a step
\* The workers of HttpServer are threads: the calls of two requests for the
\* same working copy interleave.  Every call may return Err.
SyncPcs == {"open", "reset", "cleanup", "fetch", "fetch_head", "analysis",
            "find_reference", "set_target", "set_head", "checkout"}

At(r, pc, to) == h[r].pc = pc /\ h' = Frame(r, [h[r] EXCEPT !.pc = to])

RestSync == <<secret, latch, holder, remote, mpc, restart, marker, hist, probe>>

\* Ok(()) at line 105.
ReturnOk(r) == h' = Frame(r, [h[r] EXCEPT !.pc = "arm", !.sync = "Ok"])

\* Repository::open(repo_path)
StepOpen(r) ==
    /\ h[r].pc = "open"
    /\ Resolve(h[r].repo_path) = {GitDir}
    /\ h' = Frame(r, [h[r] EXCEPT !.pc = "reset", !.was = repo.master, !.drift = repo.dirty])
    /\ UNCHANGED repo
    /\ UNCHANGED RestSync

\* repo.head()?.peel_to_commit()?; repo.reset(.., Hard, ..)
StepReset(r) ==
    /\ At(r, "reset", "cleanup")
    /\ repo' = reset_hard(repo)
    /\ UNCHANGED RestSync

StepCleanup(r) ==
    /\ At(r, "cleanup", "fetch")
    /\ repo' = cleanup_state(repo)
    /\ UNCHANGED RestSync

\* find_remote("origin"), fetch(&["master"]): FETCH_HEAD is written.
StepFetch(r) ==
    /\ At(r, "fetch", "fetch_head")
    /\ repo' = fetch(repo, remote)
    /\ UNCHANGED RestSync

\* find_reference("FETCH_HEAD"), reference_to_annotated_commit: FETCH_HEAD
\* is read as it is now.
StepFetchHead(r) ==
    /\ h[r].pc = "fetch_head"
    /\ h' = Frame(r, [h[r] EXCEPT !.pc = "analysis", !.fetch_commit = repo.fetch_head])
    /\ UNCHANGED repo
    /\ UNCHANGED RestSync

\* merge_analysis against HEAD as it is now, and the `if` of line 98.
StepAnalysis(r) ==
    /\ h[r].pc = "analysis"
    /\ IF is_fast_forward(repo.master, h[r].fetch_commit)
       THEN h' = Frame(r, [h[r] EXCEPT !.pc = "find_reference"])
       ELSE ReturnOk(r)
    /\ UNCHANGED repo
    /\ UNCHANGED RestSync

\* find_reference("refs/heads/master"): the reference is loaded with the
\* target it has now.
StepFindReference(r) ==
    /\ h[r].pc = "find_reference"
    /\ h' = Frame(r, [h[r] EXCEPT !.pc = "set_target", !.reference = repo.master])
    /\ UNCHANGED repo
    /\ UNCHANGED RestSync

\* reference.set_target(fetch_commit.id(), ..): written when the reference
\* still has the target it was loaded with, GIT_EMODIFIED otherwise.
StepSetTarget(r) ==
    /\ h[r].pc = "set_target"
    /\ IF repo.master = h[r].reference
       THEN /\ repo' = set_target(repo, h[r].fetch_commit)
            /\ h' = Frame(r, [h[r] EXCEPT !.pc = "set_head"])
       ELSE /\ SyncErr(r)
            /\ UNCHANGED repo
    /\ UNCHANGED RestSync

StepSetHead(r) ==
    /\ At(r, "set_head", "checkout")
    /\ repo' = set_head(repo)
    /\ UNCHANGED RestSync

StepCheckout(r) ==
    /\ h[r].pc = "checkout"
    /\ repo' = checkout_head(repo)
    /\ ReturnOk(r)
    /\ UNCHANGED RestSync

\* The call the worker is at returns Err: `?` leaves update_git_repository.
StepFail(r) ==
    /\ h[r].pc \in SyncPcs
    /\ SyncErr(r)
    /\ UNCHANGED repo
    /\ UNCHANGED RestSync

SyncStep(r) ==
    \/ StepOpen(r) \/ StepReset(r) \/ StepCleanup(r) \/ StepFetch(r) \/ StepFetchHead(r)
    \/ StepAnalysis(r) \/ StepFindReference(r) \/ StepSetTarget(r) \/ StepSetHead(r)
    \/ StepCheckout(r) \/ StepFail(r)

InitSync ==
    /\ secret = {}
    /\ probe = NoProbe
    /\ h = [r \in Reqs |-> IdleFrame]
    /\ latch = FALSE
    /\ holder = 0
    /\ repo = CleanRepo
    /\ remote = 0
    /\ mpc = "lock"
    /\ restart = FALSE
    /\ marker = FALSE
    /\ hist = [arms |-> 0, batch |-> 0, created |-> "none"]

NextSync ==
    \/ \E r \in Reqs : Receive(r, {}, <<"a">>)
    \/ \E r \in Reqs : SyncStep(r)
    \/ \E r \in Reqs : Arm(r)
    \/ RemoteAdvance

SpecSync == InitSync /\ [][NextSync]_vars

\* ------------------------------------------- one request, every path segment
\* Characters of the class and three outside it.
PathChars == AllowedChars \cup {" ", ";", "$"}

InitPath ==
    /\ secret = {}
    /\ probe \in [token : {{}}, subpath : Strings(PathChars, MaxSegLen)]
    /\ h = [r \in Reqs |-> IdleFrame]
    /\ latch = FALSE
    /\ holder = 0
    /\ repo = CleanRepo
    /\ remote = 1
    /\ mpc = "lock"
    /\ restart = FALSE
    /\ marker = FALSE
    /\ hist = [arms |-> 0, batch |-> 0, created |-> "none"]

SpecPath == InitPath /\ [][NextInputs]_vars

\* --------------------------------- two requests for "a", one after the other
\* Worker 1 handles one request; once its sync has returned Ok worker 2
\* handles one, while origin and the working copy may change at any time.
NextTwice ==
    \/ h[1].pc = "idle" /\ Receive(1, {}, <<"a">>)
    \/ h[1].sync = "Ok" /\ h[2].pc = "idle" /\ Receive(2, {}, <<"a">>)
    \/ \E r \in {1, 2}, failAt \in StepNames \cup {""} : Update(r, failAt)
    \/ \E r \in {1, 2} : Arm(r)
    \/ RemoteAdvance
    \/ Drift

SpecTwice == InitRepo /\ [][NextTwice]_vars


\* ------------------------------------------------------------------ claims
Done(r) == h[r].pc = "done"

\* Worker r takes a step of handle_webhook.
Steps(r) == h'[r] # h[r]

\* C1: the latch is set to true only by a request whose
\* update_git_repository returned Ok, in the step that follows that return;
\* a request answered with an error (authentication, path, directory, any
\* step of the sync) never changes the latch.
C1_ArmOnlyAfterSyncOk ==
    [][/\ \A r \in Reqs :
            /\ (Steps(r) /\ h[r].pc # "arm") => latch' = latch
            /\ (Steps(r) /\ h'[r].resp.status = "error") => latch' = latch
            /\ h'[r].pc = "arm" => h'[r].sync = "Ok"
       /\ (latch' /\ ~latch) =>
            \E r \in Reqs : h[r].pc = "arm" /\ h[r].sync = "Ok" /\ h'[r].resp = OkResponse
      ]_vars

\* A request was answered 200 and the latch is set, while another request
\* whose sync failed has been answered.
C1_Witness ==
    \E r, q \in Reqs :
        /\ Done(r) /\ h[r].sync = "Ok" /\ latch
        /\ Done(q) /\ h[q].sync = "Err"

\* The checks a request fails, read off its inputs.
FailsAuth == secret # {} /\ probe.token # secret
FailsPath ==
    \/ probe.subpath = << >>
    \/ \E i \in 1..Len(probe.subpath) : probe.subpath[i] \notin AllowedChars
FailsDir == ~is_dir(Join(Root, probe.subpath))

\* C2: the checks run in the order authentication, path validation,
\* directory existence, sync; the answer is the error of the first check
\* that fails, and neither a later check nor the sync is run.
C2_FirstFailureDecides ==
    Done(1) =>
        /\ FailsAuth =>
              /\ h[1].resp.message.text = "Unauthorized"
              /\ h[1].ran = <<"auth">>
        /\ (~FailsAuth /\ FailsPath) =>
              /\ h[1].resp.message.text = "Invalid path: "
              /\ h[1].ran = <<"auth", "path">>
        /\ (~FailsAuth /\ ~FailsPath /\ FailsDir) =>
              /\ h[1].resp.message.text = "Repository not found: "
              /\ h[1].ran = <<"auth", "path", "dir">>
        /\ (FailsAuth \/ FailsPath \/ FailsDir) =>
              /\ h[1].sync = "none"
              /\ repo = CleanRepo
        /\ ~(FailsAuth \/ FailsPath \/ FailsDir) =>
              /\ h[1].ran = <<"auth", "path", "dir", "sync">>
              /\ h[1].sync # "none"

\* A request with a wrong token and an invalid path was answered.
C2_Witness == Done(1) /\ FailsAuth /\ FailsPath /\ FailsDir

\* C3: without a secret every request authenticates; with a secret a
\* request authenticates iff it carries a token equal to the secret.
Authenticated == h[1].resp.code # 401 /\ Len(h[1].ran) >= 2
C3_Authentication ==
    Done(1) =>
        /\ secret = {} => Authenticated
        /\ secret # {} =>
              (Authenticated <=> \E t \in probe.token : \E x \in secret : t = x)
        /\ ~Authenticated => h[1].resp.message.text = "Unauthorized"

\* A token one character away from the secret was rejected.
C3_Witness ==
    /\ Done(1) /\ secret = {Secret} /\ probe.token = {NearMiss}
    /\ h[1].resp.code = 401

\* C4 (as claimed): every request that passes validation and reaches the
\* sync has a repository path that resolves inside the root.  The claim says
\* strictly inside; stated here without "strictly", so that a violation is
\* a path outside the root and not the root itself.
C4_AcceptedPathInsideRoot ==
    (h[1].pc = "open") =>
        \A d \in Resolve(h[1].repo_path) : d = RootDir \/ StrictlyInside(d)

\* C5: however many times the latch was armed between two drains, the
\* latch holds one pending signal; the drain that consumed N >= 1 arms
\* makes one File::create call in its cycle, a drain that consumed none
\* makes none, and the drain leaves the latch false.
C5_Coalescing ==
    /\ latch = (hist.arms >= 1)
    /\ mpc = "trigger" => restart = (hist.batch >= 1)
    /\ mpc = "sleep" => (hist.created \in {"ok", "failed"}) = (hist.batch >= 1)

\* Three arms were consumed by one drain, whose cycle wrote the marker once.
C5_Witness == mpc = "sleep" /\ hist.batch >= 3 /\ hist.created = "ok" /\ marker /\ ~latch

\* C6: an armed latch is drained, the drain that reads it observes true, and
\* its cycle calls File::create: afterwards the marker exists unless that
\* call failed.
C6_ArmLeadsToMarker ==
    /\ latch ~> ~latch
    /\ (mpc = "trigger" /\ restart) ~>
          (mpc = "sleep" /\ ((hist.created = "ok" /\ marker) \/ hist.created = "failed"))
    /\ [][(mpc = "lock" /\ mpc' = "trigger") => (restart' = latch)]_vars

\* A request was answered 200 and the next cycle created the marker.
C6_Witness ==
    /\ \E r \in Reqs : Done(r) /\ h[r].resp.code = 200
    /\ mpc = "sleep" /\ restart /\ hist.created = "ok" /\ marker

\* C7 (as claimed): the cycle after one whose File::create failed calls
\* File::create again, whether or not a request armed the latch in between.
C7_FailedWriteRetried ==
    (mpc = "trigger" /\ hist.created = "failed") => restart

\* C8: the loop of monitor_restart never ends: the monitor always has a next
\* step, every cycle reaches the sleep, and after a cycle whose File::create
\* failed the next cycle starts.
C8_MonitorNeverStops ==
    /\ [](ENABLED Monitor)
    /\ []<>(mpc = "sleep")
    /\ (mpc = "sleep" /\ hist.created = "failed") ~> (mpc = "trigger")

\* A cycle has started after a cycle whose File::create failed.
C8_Witness == mpc = "trigger" /\ hist.created = "failed"

\* C9: each outcome has one status code: 200 and "success" when the sync
\* returned Ok, 500 for every failure of the sync, 401, 400 and 404 for the
\* failed checks, each error with status "error".
C9_StatusCodes ==
    Done(1) =>
        /\ h[1].sync = "Ok" => h[1].resp.code = 200 /\ h[1].resp.status = "success"
        /\ h[1].sync = "Err" => h[1].resp.code = 500 /\ h[1].resp.status = "error"
        /\ (h[1].sync = "none" /\ FailsAuth) =>
              h[1].resp.code = 401 /\ h[1].resp.status = "error"
        /\ (h[1].sync = "none" /\ ~FailsAuth /\ FailsPath) =>
              h[1].resp.code = 400 /\ h[1].resp.status = "error"
        /\ (h[1].sync = "none" /\ ~FailsAuth /\ ~FailsPath) =>
              h[1].resp.code = 404 /\ h[1].resp.status = "error"

\* A request whose sync failed was answered 500.
C9_Witness == Done(1) /\ h[1].sync = "Err" /\ h[1].resp.code = 500

\* C10: a sync of a working copy whose master is strictly behind origin's
\* master, in which no call fails, returns Ok and leaves master and the
\* working tree at the fetched commit.
Behind == repo.master # Diverged /\ repo.master < remote
C10_FastForward ==
    /\ [](Behind =>
            LET u == update_git_repository(repo, remote, TRUE, "")
            IN  /\ u.err = {}
                /\ u.repo.master = remote
                /\ u.repo.tree = remote
                /\ ~u.repo.dirty)
    /\ [][\A r \in Reqs :
            (h[r].pc = "open" /\ h'[r].sync = "Ok" /\ Behind) =>
                /\ repo'.master = remote
                /\ repo'.fetch_head = remote
                /\ repo'.tree = remote
                /\ ~repo'.dirty]_vars

\* A sync has fast-forwarded the working copy over two commits.
C10_Witness ==
    /\ h[1].pc = "arm" /\ h[1].sync = "Ok" /\ h[1].was = 0
    /\ repo.master = 2 /\ repo.tree = 2 /\ repo.fetch_head = 2 /\ remote = 2

\* C11: a sync in which no call fails, of a working copy whose master is not
\* strictly behind origin's master (it has diverged, or is up to date),
\* returns Ok and leaves master where it was, the working tree at master: no
\* merge commit is made and the branch is not moved to the fetched commit.
C11_NonFastForward ==
    /\ [](~Behind =>
            LET u == update_git_repository(repo, remote, TRUE, "")
            IN  /\ u.err = {}
                /\ u.repo.master = repo.master
                /\ u.repo.tree = repo.master)
    /\ [][\A r \in Reqs :
            (h[r].pc = "open" /\ h'[r].sync = "Ok" /\ ~Behind) =>
                /\ repo'.master = repo.master
                /\ repo'.tree = repo.master
                /\ repo'.fetch_head = remote]_vars

\* A sync of a diverged master has returned Ok with origin ahead, and master
\* is still the diverged commit.
C11_Witness ==
    /\ h[1].pc = "arm" /\ h[1].sync = "Ok" /\ h[1].was = Diverged
    /\ repo.master = Diverged /\ repo.tree = Diverged
    /\ remote >= 1 /\ repo.fetch_head = remote

\* C12: a sync that follows a sync that returned Ok, origin and the tracked
\* files not having changed in between, returns Ok when no call fails and
\* leaves master and the working tree as the first sync left them.
InARow == h[1].sync = "Ok" /\ repo.fetch_head = remote /\ ~repo.dirty
C12_Idempotent ==
    /\ [](LET u1 == update_git_repository(repo, remote, TRUE, "")
              u2 == update_git_repository(u1.repo, remote, TRUE, "")
          IN  u1.err = {} /\ u2.err = {} /\ u2.repo = u1.repo)
    /\ [][(h[2].pc = "open" /\ h'[2].sync = "Ok" /\ InARow) =>
            /\ repo'.master = repo.master
            /\ repo'.tree = repo.tree
            /\ repo'.dirty = repo.dirty
            /\ repo'.untracked = repo.untracked]_vars

\* The first sync fast-forwarded master from 0 to 2; the second, entered with
\* master at 2, has returned Ok with master and tree still at 2.
C12_Witness ==
    /\ h[1].sync = "Ok" /\ h[1].pc = "arm" /\ h[1].was = 0
    /\ h[2].sync = "Ok" /\ h[2].pc = "arm" /\ h[2].was = 2
    /\ repo.master = 2 /\ repo.tree = 2 /\ remote = 2 /\ ~repo.dirty

\* sub occurs in s as a contiguous run of characters.
Contains(s, sub) ==
    \E i \in 1..(Len(s) - Len(sub) + 1) : SubSeq(s, i, i + Len(sub) - 1) = sub

\* C13 (as claimed): the message of a 401, 400 or 404 response contains
\* neither the configured repository root nor the configured secret.
C13_NoLeak ==
    (Done(1) /\ h[1].resp.code \in {401, 400, 404}) =>
        /\ ~Contains(h[1].resp.message.arg, Root)
        /\ \A x \in secret : ~Contains(h[1].resp.message.arg, x)

\* C14: validate_path accepts a segment iff it is not empty and each of its
\* characters is a word character (letter, digit, underscore), a hyphen, a
\* slash, a backslash or a dot; a request with any other segment is answered
\* InvalidPath (400) with the segment, and no other request is.
Allowed ==
    /\ probe.subpath # << >>
    /\ \A i \in 1..Len(probe.subpath) :
          probe.subpath[i] \in {"a", "7", "_", "-", "/", "\\", "."}
C14_ValidatePath ==
    /\ validate_path(probe.subpath) = Allowed
    /\ h[1].pc # "idle" =>
          (Allowed <=> h[1].resp.code # 400)
    /\ h[1].resp.code = 400 =>
          /\ h[1].resp.message = [text |-> "Invalid path: ", arg |-> probe.subpath]
          /\ h[1].ran = <<"auth", "path">>

\* A segment of an allowed character followed by '$' was answered 400.
C14_Witness ==
    /\ Done(1) /\ probe.subpath = <<"a", "$">>
    /\ h[1].resp.code = 400

\* The tasks inside a critical section of the latch, by their positions.
Holders ==
    {r \in Reqs : h[r].pc \in {"set", "unlock"}}
        \cup (IF mpc \in {"read", "clear", "unlock"} THEN {MonitorTask} ELSE {})

\* C15: at most one task is inside a critical section of the latch; no arm
\* falls between the drain's read and its clear; an arm completed before the
\* read is seen by it, and an arm not yet seen by a read keeps the latch true.
C15_LatchAtomic ==
    /\ Cardinality(Holders) <= 1
    /\ Holders = (IF holder = 0 THEN {} ELSE {holder})
    /\ latch = (hist.arms >= 1)
    /\ mpc = "clear" => hist.arms = hist.batch
    /\ mpc \in {"clear", "unlock", "trigger"} => restart = (hist.batch >= 1)

\* The monitor has read true and not yet cleared, while a handler whose sync
\* returned Ok waits for the mutex.
C15_Witness ==
    /\ mpc = "clear" /\ restart /\ holder = MonitorTask
    /\ \E r \in Reqs : h[r].pc = "arm"

\* C16 (as claimed): a sync that returns an error has not moved master, and
\* does not leave master at a commit other than the one the tree holds.
C16_NoPartialUpdate ==
    [][\A r \in Reqs :
          (h[r].pc = "open" /\ h'[r].sync = "Err") =>
              /\ repo'.master = repo.master
              /\ repo'.tree = repo'.master]_vars

\* C17 (as claimed): when a sync returns Ok the working copy holds no
\* untracked file.
C17_NoUntrackedAfterSync ==
    [][\A r \in Reqs :
          (h[r].pc = "open" /\ h'[r].sync = "Ok") => ~repo'.untracked]_vars

\* C18 (as claimed): under every interleaving of the requests for one
\* working copy, with origin advancing, every change of master goes to a
\* descendant of the commit it leaves: the tip never moves backwards.
C18_TipNeverBackwards ==
    [][IsAncestor(repo.master, repo'.master)]_vars

\* The calls of update_git_repository from the fetch on.
FromFetch == {"fetch", "fetch_head", "analysis", "set_target", "set_head", "checkout"}

\* C19: a sync in which the fetch or a later call fails has already reset
\* the working copy: it returns an error, the request is answered 500 and
\* does not arm the latch, and the uncommitted modifications are gone, the
\* tree being that of the commit master was at.
C19_ResetBeforeFailure ==
    /\ [](\A failAt \in FromFetch :
            LET u == update_git_repository(repo, remote, TRUE, failAt)
            IN  /\ failAt = "fetch" => u.err # {}
                /\ u.err # {} => (~u.repo.dirty /\ u.repo.tree = repo.master))
    /\ [][\A r \in Reqs :
            (h[r].pc = "open" /\ h'[r].sync = "Err") =>
                /\ latch' = latch
                /\ h'[r].pc = "done" /\ h'[r].resp.code = 500
                /\ repo' = repo \/ (~repo'.dirty /\ repo'.tree = repo.master)]_vars

\* A sync entered with modified tracked files has fetched and then failed:
\* the modifications are gone and the latch was never armed.
C19_Witness ==
    /\ Done(1) /\ h[1].sync = "Err" /\ h[1].drift
    /\ ~repo.dirty /\ repo.fetch_head = 1 /\ repo.master = 0
    /\ ~latch /\ hist.arms = 0

\* C20: every sync that returns Ok, whether or not it moved master, takes
\* the handler to the arming of the latch; the arm sets the latch with the
\* 200 answer; and an armed latch is read by the next drain, whose cycle
\* calls File::create.
C20_EveryOkSyncSignals ==
    /\ [][\A r \in Reqs :
            /\ (h[r].pc = "open" /\ h'[r].sync = "Ok") => h'[r].pc = "arm"
            /\ (h[r].pc = "arm" /\ Steps(r)) => (latch' /\ h'[r].resp = OkResponse)]_vars
    /\ latch ~> (latch /\ mpc = "lock")
    /\ (latch /\ mpc = "lock") ~>
          (mpc = "sleep" /\ restart /\ hist.created \in {"ok", "failed"})

\* Only worker r has handled requests; its last one was answered 200 by a
\* sync that found master already at origin's tip, and the cycle that
\* drained its arm, the one arm of the batch, has created the marker.
C20_Witness ==
    \E r \in Reqs :
        /\ Done(r) /\ h[r].resp.code = 200 /\ h[r].was = remote /\ repo.master = remote
        /\ \A q \in Reqs \ {r} : h[q].pc = "idle"
        /\ ~latch /\ mpc = "sleep" /\ hist.batch = 1 /\ hist.created = "ok" /\ marker

====
